---- MODULE Spec2Model ----
(***************************************************************************)
(* Cloud-Security-Posture-Scanner: the scan orchestrator                   *)
(* (cspm_scanner/scanner_engine.py) and the risk scoring engine            *)
(* (cspm_scanner/risk_scoring.py).                                         *)
(*                                                                         *)
(* Spec      one call of ScannerEngine.scan_subscription, split at the     *)
(*           statements of the coroutine; the inspectors (scanner classes) *)
(*           and the access check are the environment.                     *)
(* SpecPure  the pure functions of the engine applied to a finding list    *)
(*           drawn from a bounded universe.                                *)
(* SpecPrioritize, SpecTrend, SpecRecommend                                *)
(*           prioritize_findings, calculate_subscription_risk_trend and    *)
(*           _generate_recommendations on their own inputs.                *)
(* SpecFault scan_subscription with the steps of its try block failing.    *)
(* SpecApi   the REST handlers and the background task (cspm_scanner/      *)
(*           api.py).                                                      *)
(***************************************************************************)
EXTENDS Integers, Sequences, FiniteSets, TLC

VARIABLES
    pc,                      \* position of the scan_subscription coroutine
    scan_request,            \* the scan_request argument (None or a ScanRequest)
    access,                  \* what auth_manager.validate_access returned
    scanners_to_run,         \* resource types still to iterate, in dict order
    current,                 \* the scanner whose scan() is awaited
    all_findings,            \* local all_findings
    total_resources_scanned, \* local total_resources_scanned
    result,                  \* the ScanResult returned, or None
    error,                   \* the exception that left the coroutine, or None
    invoked,                 \* history: scanners constructed and called, in order
    failures,                \* history: how many scanners raised
    delivered,               \* history: findings handed back by scanners, in order
    cancelled,               \* history: the caller cancelled the scan
    now,                     \* a logical clock: one tick per step of the coroutine
    start_time,              \* local start_time (line 38)
    scan_timestamp,          \* the scan_timestamp of the ScanResult returned, or None
    fault,                   \* history: the step of the scan that raised, if one did
    p_findings,              \* SpecPure: the list (findings, scan results) passed to a function
    p_op,                    \* SpecPure: the function applied last
    p_arg,                   \* SpecPure: its second argument (a threshold)
    p_out,                   \* SpecPure: what it returned
    p_prev,                  \* SpecPure: the score before a finding was added
    active_scans,            \* SpecApi: api.active_scans, scan id -> ScanStatus
    task,                    \* SpecApi: where the background task of each scan id is
    response,                \* SpecApi: the last HTTP response sent
    deleted                  \* SpecApi history: scan ids delete_scan removed

scan_vars == <<pc, scan_request, access, scanners_to_run, current, all_findings,
               total_resources_scanned, result, error, invoked, failures, delivered, cancelled,
               now, start_time, scan_timestamp, fault>>
pure_vars == <<p_findings, p_op, p_arg, p_out, p_prev>>
api_vars == <<active_scans, task, response, deleted>>
vars == <<pc, scan_request, access, scanners_to_run, current, all_findings,
          total_resources_scanned, result, error, invoked, failures, delivered, cancelled,
          now, start_time, scan_timestamp, fault,
          p_findings, p_op, p_arg, p_out, p_prev,
          active_scans, task, response, deleted>>

\* An Optional value is a sequence: None is empty, Some(x) holds x.
None == <<>>
Some(x) == <<x>>
Get(o) == o[1]

\* no scanner in flight; no exception
Nothing == "None"

(***************************************************************************)
(* Bounds of the model.                                                    *)
(***************************************************************************)
\* findings one scan collects over all its scanners
MaxFindings == 2
\* length of the resource_types list of a ScanRequest
MaxSel == 2
\* length of the finding list handed to a pure function
MaxLen == 3
\* length of the scan result list handed to the trend function
MaxResults == 3
\* length of a run of equal findings handed to _generate_recommendations
MaxRun == 11
\* scans started through the API
MaxScans == 2

(***************************************************************************)
(* models.py                                                               *)
(***************************************************************************)
SeverityLevel == {"critical", "high", "medium", "low", "info"}

ResourceType == {"STORAGE_ACCOUNT", "NETWORK_SECURITY_GROUP", "KEY_VAULT",
                 "VIRTUAL_MACHINE", "DISK", "DATABRICKS_WORKSPACE"}

\* resource ids the inspected subscription holds
ResourceIds == {"r1"}

\* BaseScanner.create_finding: the fields the engine reads
SecurityFinding(sev, rid, rtype) ==
    [severity |-> sev, resource_id |-> rid, resource_type |-> rtype]

\* ScanRequest: severity_threshold defaults to LOW, resource_types to None
DefaultSeverityThreshold == "low"

ScanRequest(types, threshold) ==
    [resource_types |-> types, severity_threshold |-> threshold]

(***************************************************************************)
(* Helpers: sequences and sums.                                            *)
(***************************************************************************)
RECURSIVE SeqsUpTo(_, _)
SeqsUpTo(S, n) ==
    IF n = 0 THEN {<<>>}
    ELSE LET shorter == SeqsUpTo(S, n - 1)
         IN shorter \cup {Append(s, x) : s \in {t \in shorter : Len(t) = n - 1}, x \in S}

RECURSIVE SumOver(_, _)
SumOver(S, f) ==
    IF S = {} THEN 0
    ELSE LET x == CHOOSE y \in S : TRUE
         IN f[x] + SumOver(S \ {x}, f)

Min(a, b) == IF a <= b THEN a ELSE b

\* mutant: every finding counts as a resource of its own
DistinctResources_len(findings) == Len(findings)

\* Python's len(set(f.resource_id for f in findings))
DistinctResources(findings) ==
    Cardinality({findings[i].resource_id : i \in DOMAIN findings})

(***************************************************************************)
(* risk_scoring.py                                                         *)
(***************************************************************************)
severity_weights ==
    [s \in SeverityLevel |->
        CASE s = "critical" -> 100
          [] s = "high"     -> 75
          [] s = "medium"   -> 50
          [] s = "low"      -> 25
          [] s = "info"     -> 10]

\* collections.Counter over the severities: only the severities present are keys
Counter(findings) ==
    [s \in {findings[i].severity : i \in DOMAIN findings} |->
        Cardinality({i \in DOMAIN findings : findings[i].severity = s})]

\* The arithmetic is exact: base_score * density_factor is the fraction
\* (weighted_sum * 100 * d) / (total_weight * 100) with d = min(150, 100 + n),
\* min(100, .) caps it and int() truncates it.
ScoreFraction(weighted_sum, total_weight, n, capped) ==
    LET d   == Min(150, 100 + n)
        num == weighted_sum * 100 * d
        den == total_weight * 100
    IN IF capped /\ num >= 100 * den THEN 100 ELSE num \div den

\* mutant: the cap min(100, .) is missing
calculate_overall_risk_score_nocap(findings) ==
    IF findings = <<>> THEN 0
    ELSE LET severity_counts == Counter(findings)
             weighted_sum == SumOver(DOMAIN severity_counts,
                                [s \in DOMAIN severity_counts |->
                                    severity_weights[s] * severity_counts[s]])
             total_weight == SumOver(DOMAIN severity_counts,
                                [s \in DOMAIN severity_counts |-> severity_weights[s]])
         IN IF total_weight = 0 THEN 0
            ELSE ScoreFraction(weighted_sum, total_weight, Len(findings), FALSE)

\* mutant: the two accumulators are swapped (weight into weighted_sum,
\* weight * count into total_weight)
calculate_overall_risk_score_swapped(findings) ==
    IF findings = <<>> THEN 0
    ELSE LET severity_counts == Counter(findings)
             weighted_sum == SumOver(DOMAIN severity_counts,
                                [s \in DOMAIN severity_counts |-> severity_weights[s]])
             total_weight == SumOver(DOMAIN severity_counts,
                                [s \in DOMAIN severity_counts |->
                                    severity_weights[s] * severity_counts[s]])
         IN IF total_weight = 0 THEN 0
            ELSE ScoreFraction(weighted_sum, total_weight, Len(findings), TRUE)

\* mutant: the cap min(100, .) is applied to base_score, before the density
\* factor
calculate_overall_risk_score_capfirst(findings) ==
    IF findings = <<>> THEN 0
    ELSE LET severity_counts == Counter(findings)
             weighted_sum == SumOver(DOMAIN severity_counts,
                                [s \in DOMAIN severity_counts |->
                                    severity_weights[s] * severity_counts[s]])
             total_weight == SumOver(DOMAIN severity_counts,
                                [s \in DOMAIN severity_counts |-> severity_weights[s]])
         IN IF total_weight = 0 THEN 0
            ELSE (Min(100 * total_weight, weighted_sum * 100)
                    * Min(150, 100 + Len(findings))) \div (total_weight * 100)

\* mutant: the weighted sum is divided by the number of findings (the mean
\* weight of a finding), not by the sum of the weights present
calculate_overall_risk_score_mean(findings) ==
    IF findings = <<>> THEN 0
    ELSE LET severity_counts == Counter(findings)
             weighted_sum == SumOver(DOMAIN severity_counts,
                                [s \in DOMAIN severity_counts |->
                                    severity_weights[s] * severity_counts[s]])
         IN ScoreFraction(weighted_sum, Len(findings) * 100, Len(findings), TRUE)

calculate_overall_risk_score(findings) ==
    IF findings = <<>> THEN 0
    ELSE LET severity_counts == Counter(findings)
             weighted_sum == SumOver(DOMAIN severity_counts,
                                [s \in DOMAIN severity_counts |->
                                    severity_weights[s] * severity_counts[s]])
             total_weight == SumOver(DOMAIN severity_counts,
                                [s \in DOMAIN severity_counts |-> severity_weights[s]])
         IN IF total_weight = 0 THEN 0
            ELSE ScoreFraction(weighted_sum, total_weight, Len(findings), TRUE)

\* SeverityLevel is class SeverityLevel(str, Enum): max() compares its members
\* as the strings they are, "critical" < "high" < "info" < "low" < "medium"
StrOrder == <<"critical", "high", "info", "low", "medium">>

StrIndex(sev) == CHOOSE i \in DOMAIN StrOrder : StrOrder[i] = sev

\* max(finding.severity for finding in resource_findings)
MaxSeverity(resource_findings) ==
    CHOOSE s \in {resource_findings[i].severity : i \in DOMAIN resource_findings} :
        \A j \in DOMAIN resource_findings :
            StrIndex(resource_findings[j].severity) <= StrIndex(s)

\* finding_count_factor is min(15, 10 + n) tenths; int() truncates the product
calculate_resource_risk_score(resource_findings) ==
    IF resource_findings = <<>> THEN 0
    ELSE LET highest_severity == MaxSeverity(resource_findings)
             base_score == severity_weights[highest_severity]
             factor_x10 == Min(15, 10 + Len(resource_findings))
         IN Min(100, (base_score * factor_x10) \div 10)

\* mutant: the boundary 80 belongs to High
get_risk_level_gt(risk_score) ==
    IF risk_score > 80 THEN "Critical"
    ELSE IF risk_score >= 60 THEN "High"
    ELSE IF risk_score >= 40 THEN "Medium"
    ELSE IF risk_score >= 20 THEN "Low"
    ELSE "Minimal"

get_risk_level(risk_score) ==
    IF risk_score >= 80 THEN "Critical"
    ELSE IF risk_score >= 60 THEN "High"
    ELSE IF risk_score >= 40 THEN "Medium"
    ELSE IF risk_score >= 20 THEN "Low"
    ELSE "Minimal"

\* cli.py, _get_risk_level
cli_get_risk_level(score) ==
    IF score >= 80 THEN "Critical"
    ELSE IF score >= 60 THEN "High"
    ELSE IF score >= 40 THEN "Medium"
    ELSE IF score >= 20 THEN "Low"
    ELSE "Minimal"

\* mutant: the zero-filled dictionary is not built, the Counter is returned
get_findings_by_severity_nofill(findings) == Counter(findings)

get_findings_by_severity(findings) ==
    LET severity_counts == Counter(findings)
        zero == [severity \in SeverityLevel |-> 0]
    IN [s \in DOMAIN zero \cup DOMAIN severity_counts |->
            IF s \in DOMAIN severity_counts THEN severity_counts[s] ELSE zero[s]]

(***************************************************************************)
(* scanner_engine.py                                                       *)
(***************************************************************************)
\* ScannerEngine.__init__: the registry, in insertion order
scanners == <<"STORAGE_ACCOUNT", "NETWORK_SECURITY_GROUP", "KEY_VAULT",
              "VIRTUAL_MACHINE", "DATABRICKS_WORKSPACE">>

Registered == {scanners[i] : i \in DOMAIN scanners}

severity_order ==
    [s \in SeverityLevel |->
        CASE s = "info"     -> 0
          [] s = "low"      -> 1
          [] s = "medium"   -> 2
          [] s = "high"     -> 3
          [] s = "critical" -> 4]

\* a list comprehension with a condition
RECURSIVE SelectSeqBy(_, _)
SelectSeqBy(s, keep) ==
    IF s = <<>> THEN <<>>
    ELSE LET rest == SelectSeqBy(Tail(s), keep)
         IN IF Head(s) \in keep THEN <<Head(s)>> \o rest ELSE rest

\* mutant: the comparison is > instead of >=
filter_findings_by_severity_strict(findings, min_severity) ==
    LET min_level == severity_order[min_severity]
    IN SelectSeq(findings, LAMBDA finding : severity_order[finding.severity] > min_level)

\* mutant: the kept findings are collected last first
filter_findings_by_severity_reversed(findings, min_severity) ==
    LET min_level == severity_order[min_severity]
        kept == SelectSeq(findings,
                    LAMBDA finding : severity_order[finding.severity] >= min_level)
    IN [i \in 1..Len(kept) |-> kept[Len(kept) + 1 - i]]

filter_findings_by_severity(findings, min_severity) ==
    LET min_level == severity_order[min_severity]
    IN SelectSeq(findings, LAMBDA finding : severity_order[finding.severity] >= min_level)

\* the keys of a dict built from a list: first occurrences, in order
RECURSIVE DictKeys(_)
DictKeys(s) ==
    IF s = <<>> THEN <<>>
    ELSE LET init == DictKeys(SubSeq(s, 1, Len(s) - 1))
             last == s[Len(s)]
         IN IF \E i \in DOMAIN init : init[i] = last THEN init ELSE Append(init, last)

\* mutant: the selection of the request is ignored
get_scanners_to_run_all(request) == scanners

get_scanners_to_run(request) ==
    IF request # None /\ Get(request).resource_types # None
                       /\ Get(Get(request).resource_types) # <<>>
    THEN DictKeys(SelectSeqBy(Get(Get(request).resource_types), Registered))
    ELSE scanners

\* `except Exception` around one scanner (line 65): asyncio.CancelledError
\* derives from BaseException and is not caught
\* mutant: the try/except around a scanner is missing
inner_except_missing(exc) == FALSE

\* mutant: a bare `except:`, which also catches CancelledError
inner_except_bare(exc) == TRUE

inner_except(exc) == exc = "Exception"

\* mutant: the try/except around the whole scan is missing
outer_except_missing(exc) == FALSE

\* `except Exception` around the whole scan (line 97)
outer_except(exc) == exc = "Exception"

\* lines 69-74: the filter runs when a request is given (a ScanRequest is
\* truthy, and so is every SeverityLevel)
apply_severity_threshold(findings, request) ==
    IF request # None
    THEN filter_findings_by_severity(findings, Get(request).severity_threshold)
    ELSE findings

\* mutant: the score is computed from the merged list, before the filter
finish_scan_score_first(findings, request, total) ==
    LET filtered == apply_severity_threshold(findings, request)
    IN [total_resources_scanned |-> total,
        total_findings          |-> Len(filtered),
        findings_by_severity    |-> get_findings_by_severity(filtered),
        findings                |-> filtered,
        risk_score              |-> calculate_overall_risk_score(findings)]

\* lines 69-93: filter, score, histogram, ScanResult
finish_scan(findings, request, total) ==
    LET filtered == apply_severity_threshold(findings, request)
    IN [total_resources_scanned |-> total,
        total_findings          |-> Len(filtered),
        findings_by_severity    |-> get_findings_by_severity(filtered),
        findings                |-> filtered,
        risk_score              |-> calculate_overall_risk_score(filtered)]

\* lines 99-109: the ScanResult of the outer handler; {} is the empty dict
error_scan_result ==
    [total_resources_scanned |-> 0,
     total_findings          |-> 0,
     findings_by_severity    |-> <<>>,
     findings                |-> <<>>,
     risk_score              |-> 0]

(***************************************************************************)
(* The environment: requests, and what one scanner can hand back.          *)
(***************************************************************************)
Requests ==
    {None} \cup
    {Some(ScanRequest(types, th)) :
        types \in {None} \cup {Some(l) : l \in SeqsUpTo(ResourceType, MaxSel)},
        th \in SeverityLevel}

\* a scanner creates its findings with its own resource_type (create_finding)
FindingsOf(rtype) ==
    {SecurityFinding(sev, rid, rtype) : sev \in SeverityLevel, rid \in ResourceIds}

(***************************************************************************)
(* scan_subscription, statement by statement.                              *)
(***************************************************************************)
PureIdle ==
    /\ p_findings = <<>>
    /\ p_op = "none"
    /\ p_arg = None
    /\ p_out = None
    /\ p_prev = None

ScanIdle ==
    /\ pc = "idle"
    /\ scan_request = None
    /\ access = None
    /\ scanners_to_run = <<>>
    /\ current = Nothing
    /\ all_findings = <<>>
    /\ total_resources_scanned = 0
    /\ result = None
    /\ error = Nothing
    /\ invoked = <<>>
    /\ failures = 0
    /\ delivered = <<>>
    /\ cancelled = FALSE
    /\ now = 0
    /\ start_time = 0
    /\ scan_timestamp = None
    /\ fault = "none"

\* scan ids; uuid4 never hands out the same id twice
ScanIds == 1..MaxScans

\* no response sent yet
NoResponse == [op |-> "none", scan_id |-> 0, status_code |-> 0, request_valid |-> TRUE]

\* a scan id no background task was scheduled for
NoTask == [at |-> "none", subscription_id |-> None]

ApiIdle ==
    /\ active_scans = <<>>
    /\ task = [id \in ScanIds |-> NoTask]
    /\ response = NoResponse
    /\ deleted = {}

Init == ScanIdle /\ PureIdle /\ ApiIdle

\* an exception raised at the current statement: the innermost handler that
\* catches it runs; an exception no handler catches leaves the coroutine
Throw(exc, in_loop) ==
    IF in_loop /\ inner_except(exc)
    THEN /\ pc' = "loop"
         /\ UNCHANGED <<result, error, scan_timestamp>>
    ELSE IF outer_except(exc)
    THEN /\ pc' = "done"
         /\ result' = Some(error_scan_result)
         /\ scan_timestamp' = Some(now)
         /\ UNCHANGED error
    ELSE /\ pc' = "done"
         /\ error' = exc
         /\ UNCHANGED <<result, scan_timestamp>>

\* the call: scan_subscription(subscription_id, scan_request), line 38
Call ==
    /\ pc = "idle"
    /\ \E request \in Requests : scan_request' = request
    /\ pc' = "validate"
    /\ UNCHANGED <<access, scanners_to_run, current, all_findings,
                   total_resources_scanned, result, error, invoked, failures, delivered, cancelled>>
    /\ now' = now + 1
    /\ start_time' = now
    /\ UNCHANGED <<scan_timestamp, fault>>
    /\ UNCHANGED pure_vars
    /\ UNCHANGED api_vars

\* mutant: the answer of validate_access is not looked at
ValidateAccess_unchecked ==
    /\ pc = "validate"
    /\ \E ok \in BOOLEAN : access' = Some(ok)
    /\ pc' = "select"
    /\ UNCHANGED <<scan_request, scanners_to_run, current, all_findings,
                   total_resources_scanned, result, error, invoked, failures,
                   delivered, cancelled>>
    /\ now' = now + 1
    /\ UNCHANGED <<start_time, scan_timestamp, fault>>
    /\ UNCHANGED pure_vars
    /\ UNCHANGED api_vars

\* lines 42-43: validate_access, which returns a bool and never raises
ValidateAccess ==
    /\ pc = "validate"
    /\ \E ok \in BOOLEAN :
        /\ access' = Some(ok)
        /\ IF ok
           THEN pc' = "select" /\ UNCHANGED <<result, error, scan_timestamp>>
           ELSE Throw("Exception", FALSE)
    /\ UNCHANGED <<scan_request, scanners_to_run, current, all_findings,
                   total_resources_scanned, invoked, failures, delivered, cancelled>>
    /\ now' = now + 1
    /\ UNCHANGED <<start_time, fault>>
    /\ UNCHANGED pure_vars
    /\ UNCHANGED api_vars

\* lines 46-53
SelectScanners ==
    /\ pc = "select"
    /\ scanners_to_run' = get_scanners_to_run(scan_request)
    /\ all_findings' = <<>>
    /\ total_resources_scanned' = 0
    /\ pc' = "loop"
    /\ UNCHANGED <<scan_request, access, current, result, error, invoked, failures,
                   delivered, cancelled>>
    /\ now' = now + 1
    /\ UNCHANGED <<start_time, scan_timestamp, fault>>
    /\ UNCHANGED pure_vars
    /\ UNCHANGED api_vars

\* lines 55-58: the next scanner is constructed and its scan() awaited
StartScanner ==
    /\ pc = "loop"
    /\ scanners_to_run # <<>>
    /\ current' = Head(scanners_to_run)
    /\ scanners_to_run' = Tail(scanners_to_run)
    /\ invoked' = Append(invoked, Head(scanners_to_run))
    /\ pc' = "inflight"
    /\ UNCHANGED <<scan_request, access, all_findings, total_resources_scanned,
                   result, error, failures, delivered, cancelled>>
    /\ now' = now + 1
    /\ UNCHANGED <<start_time, scan_timestamp, fault>>
    /\ UNCHANGED pure_vars
    /\ UNCHANGED api_vars

\* lines 58-63: scan() returns its findings
ScannerReturns ==
    /\ pc = "inflight"
    /\ \E findings \in SeqsUpTo(FindingsOf(current), MaxFindings - Len(all_findings)) :
        /\ all_findings' = all_findings \o findings
        /\ total_resources_scanned' =
                total_resources_scanned + DistinctResources(findings)
        /\ delivered' = delivered \o findings
    /\ pc' = "loop"
    /\ UNCHANGED <<scan_request, access, scanners_to_run, current, result, error,
                   invoked, failures, cancelled>>
    /\ now' = now + 1
    /\ UNCHANGED <<start_time, scan_timestamp, fault>>
    /\ UNCHANGED pure_vars
    /\ UNCHANGED api_vars

\* lines 57-58, 65-67: the constructor or scan() raises
ScannerRaises ==
    /\ pc = "inflight"
    /\ failures' = failures + 1
    /\ Throw("Exception", TRUE)
    /\ UNCHANGED <<scan_request, access, scanners_to_run, current, all_findings,
                   total_resources_scanned, invoked, delivered, cancelled>>
    /\ now' = now + 1
    /\ UNCHANGED <<start_time, fault>>
    /\ UNCHANGED pure_vars
    /\ UNCHANGED api_vars

\* the caller cancels the task while scan() is awaited: CancelledError is
\* raised at line 58
Cancel ==
    /\ pc = "inflight"
    /\ cancelled' = TRUE
    /\ Throw("CancelledError", TRUE)
    /\ UNCHANGED <<scan_request, access, scanners_to_run, current, all_findings,
                   total_resources_scanned, invoked, failures, delivered>>
    /\ now' = now + 1
    /\ UNCHANGED <<start_time, fault>>
    /\ UNCHANGED pure_vars
    /\ UNCHANGED api_vars

\* mutant: the result is stamped with the instant the call began
Finish_stamp_start ==
    /\ pc = "loop"
    /\ scanners_to_run = <<>>
    /\ all_findings' = apply_severity_threshold(all_findings, scan_request)
    /\ result' = Some(finish_scan(all_findings, scan_request, total_resources_scanned))
    /\ pc' = "done"
    /\ UNCHANGED <<scan_request, access, scanners_to_run, current,
                   total_resources_scanned, error, invoked, failures, delivered, cancelled>>
    /\ now' = now + 1
    /\ scan_timestamp' = Some(start_time)
    /\ UNCHANGED <<start_time, fault>>
    /\ UNCHANGED pure_vars
    /\ UNCHANGED api_vars

\* lines 69-95, after the last scanner
Finish ==
    /\ pc = "loop"
    /\ scanners_to_run = <<>>
    /\ all_findings' = apply_severity_threshold(all_findings, scan_request)
    /\ result' = Some(finish_scan(all_findings, scan_request, total_resources_scanned))
    /\ pc' = "done"
    /\ UNCHANGED <<scan_request, access, scanners_to_run, current,
                   total_resources_scanned, error, invoked, failures, delivered, cancelled>>
    /\ now' = now + 1
    /\ scan_timestamp' = Some(now)
    /\ UNCHANGED <<start_time, fault>>
    /\ UNCHANGED pure_vars
    /\ UNCHANGED api_vars

Next ==
    \/ Call
    \/ ValidateAccess
    \/ SelectScanners
    \/ StartScanner
    \/ ScannerReturns
    \/ ScannerRaises
    \/ Cancel
    \/ Finish

Spec == Init /\ [][Next]_vars

(***************************************************************************)
(* SpecFault: scan_subscription with the steps of its try block failing.   *)
(* The subscription lookup fails when auth_manager.list_subscriptions      *)
(* raises; the filter and the scoring step fail on a finding they cannot   *)
(* read.                                                                   *)
(***************************************************************************)
\* lines 46-53 with the lookup failing: _get_subscription_details catches the
\* exception itself (lines 154-157) and returns {}
LookupFails ==
    /\ pc = "select"
    /\ fault' = "lookup"
    /\ scanners_to_run' = get_scanners_to_run(scan_request)
    /\ all_findings' = <<>>
    /\ total_resources_scanned' = 0
    /\ pc' = "loop"
    /\ UNCHANGED <<scan_request, access, current, result, error, invoked, failures,
                   delivered, cancelled>>
    /\ now' = now + 1
    /\ UNCHANGED <<start_time, scan_timestamp>>
    /\ UNCHANGED pure_vars
    /\ UNCHANGED api_vars

\* lines 69-78, after the last scanner: the filter or the scoring step raises
StepRaises ==
    /\ pc = "loop"
    /\ scanners_to_run = <<>>
    /\ \E step \in {"filter", "scoring"} : fault' = step
    /\ Throw("Exception", FALSE)
    /\ UNCHANGED <<scan_request, access, scanners_to_run, current, all_findings,
                   total_resources_scanned, invoked, failures, delivered, cancelled>>
    /\ now' = now + 1
    /\ UNCHANGED start_time
    /\ UNCHANGED pure_vars
    /\ UNCHANGED api_vars

\* the requests of SpecFault: no request, no selection, or one resource type
FaultRequests ==
    {request \in Requests :
        \/ request = None
        \/ Get(request).resource_types = None
        \/ Len(Get(Get(request).resource_types)) <= 1}

\* the call: scan_subscription(subscription_id, scan_request), line 38
FaultCall ==
    /\ pc = "idle"
    /\ \E request \in FaultRequests : scan_request' = request
    /\ pc' = "validate"
    /\ UNCHANGED <<access, scanners_to_run, current, all_findings,
                   total_resources_scanned, result, error, invoked, failures, delivered, cancelled>>
    /\ now' = now + 1
    /\ start_time' = now
    /\ UNCHANGED <<scan_timestamp, fault>>
    /\ UNCHANGED pure_vars
    /\ UNCHANGED api_vars

FaultNext ==
    \/ FaultCall
    \/ ValidateAccess
    \/ SelectScanners
    \/ LookupFails
    \/ StartScanner
    \/ ScannerReturns
    \/ ScannerRaises
    \/ Cancel
    \/ Finish
    \/ StepRaises

SpecFault == Init /\ [][FaultNext]_vars

(***************************************************************************)
(* SpecPure: the pure functions applied to one bounded finding list.       *)
(***************************************************************************)
PureFindings == FindingsOf("STORAGE_ACCOUNT")

InsertAt(s, i, x) == SubSeq(s, 1, i - 1) \o <<x>> \o SubSeq(s, i, Len(s))

PureInit ==
    /\ ScanIdle
    /\ ApiIdle
    /\ p_findings \in SeqsUpTo(PureFindings, MaxLen)
    /\ p_op = "none"
    /\ p_arg = None
    /\ p_out = None
    /\ p_prev = None

\* risk_engine.calculate_overall_risk_score(findings)
ApplyScore ==
    /\ p_op = "none"
    /\ p_op' = "calculate_overall_risk_score"
    /\ p_out' = calculate_overall_risk_score(p_findings)
    /\ UNCHANGED <<p_findings, p_arg, p_prev>>
    /\ UNCHANGED scan_vars
    /\ UNCHANGED api_vars

\* one more critical finding joins the list, and the list is scored again
AddCritical ==
    /\ p_op = "calculate_overall_risk_score"
    /\ \E i \in 1..(Len(p_findings) + 1), f \in PureFindings :
        /\ f.severity = "critical"
        /\ p_findings' = InsertAt(p_findings, i, f)
    /\ p_prev' = p_out
    /\ p_out' = calculate_overall_risk_score(p_findings')
    /\ p_op' = "add_critical"
    /\ UNCHANGED p_arg
    /\ UNCHANGED scan_vars
    /\ UNCHANGED api_vars

\* risk_engine.get_findings_by_severity(findings)
ApplyHistogram ==
    /\ p_op = "none"
    /\ p_op' = "get_findings_by_severity"
    /\ p_out' = get_findings_by_severity(p_findings)
    /\ UNCHANGED <<p_findings, p_arg, p_prev>>
    /\ UNCHANGED scan_vars
    /\ UNCHANGED api_vars

\* scanner_engine._filter_findings_by_severity(findings, min_severity)
ApplyFilter ==
    /\ p_op = "none"
    /\ \E min_severity \in SeverityLevel :
        /\ p_arg' = min_severity
        /\ p_out' = filter_findings_by_severity(p_findings, min_severity)
    /\ p_op' = "filter_findings_by_severity"
    /\ UNCHANGED <<p_findings, p_prev>>
    /\ UNCHANGED scan_vars
    /\ UNCHANGED api_vars

\* risk_engine.calculate_resource_risk_score(resource_findings)
ApplyResourceScore ==
    /\ p_op = "none"
    /\ p_op' = "calculate_resource_risk_score"
    /\ p_out' = calculate_resource_risk_score(p_findings)
    /\ UNCHANGED <<p_findings, p_arg, p_prev>>
    /\ UNCHANGED scan_vars
    /\ UNCHANGED api_vars

\* the score of a ScanResult, an integer in 0..100
RiskScoreRange == 0..100

\* risk_engine.get_risk_level(score) and the CLI's _get_risk_level(score)
ApplyRiskLevel ==
    /\ p_op = "none"
    /\ \E score \in RiskScoreRange :
        /\ p_arg' = score
        /\ p_out' = <<get_risk_level(score), cli_get_risk_level(score)>>
    /\ p_op' = "get_risk_level"
    /\ UNCHANGED <<p_findings, p_prev>>
    /\ UNCHANGED scan_vars
    /\ UNCHANGED api_vars

PureNext ==
    \/ ApplyScore
    \/ AddCritical
    \/ ApplyHistogram
    \/ ApplyFilter
    \/ ApplyResourceScore
    \/ ApplyRiskLevel

SpecPure == PureInit /\ [][PureNext]_vars

(***************************************************************************)
(* SpecPrioritize: prioritize_findings applied to findings that carry a    *)
(* risk score and an identity.                                             *)
(***************************************************************************)
\* SecurityFinding.risk_score values (Field(..., ge=0, le=100))
RiskScores == {30, 60}

\* resource ids that tell two findings of one severity and score apart
SortIds == {"r1", "r2"}

ScoredFinding(sev, rid, score) ==
    [severity |-> sev, resource_id |-> rid, resource_type |-> "STORAGE_ACCOUNT",
     risk_score |-> score]

ScoredFindings ==
    {ScoredFinding(sev, rid, score) :
        sev \in SeverityLevel, rid \in SortIds, score \in RiskScores}

\* prioritize_findings: the local severity_order, critical first
priority_order ==
    [s \in SeverityLevel |->
        CASE s = "critical" -> 0
          [] s = "high"     -> 1
          [] s = "medium"   -> 2
          [] s = "low"      -> 3
          [] s = "info"     -> 4]

\* key=lambda f: (severity_order[f.severity], -f.risk_score)
SortKey(f) == <<priority_order[f.severity], 0 - f.risk_score>>

\* Python's < on two tuples of two integers
TupleLess(a, b) == a[1] < b[1] \/ (a[1] = b[1] /\ a[2] < b[2])

\* sorted() is stable: an element goes behind every element whose key is not
\* greater than its own
InsertStable(out, f) ==
    LET n == Cardinality({i \in DOMAIN out : ~TupleLess(SortKey(f), SortKey(out[i]))})
    IN SubSeq(out, 1, n) \o <<f>> \o SubSeq(out, n + 1, Len(out))

\* an unstable sort: an element goes before the elements of equal key
InsertBeforeTies(out, f) ==
    LET n == Cardinality({i \in DOMAIN out : TupleLess(SortKey(out[i]), SortKey(f))})
    IN SubSeq(out, 1, n) \o <<f>> \o SubSeq(out, n + 1, Len(out))

RECURSIVE SortedWith(_, _)
SortedWith(findings, stable) ==
    IF findings = <<>> THEN <<>>
    ELSE LET front == SortedWith(SubSeq(findings, 1, Len(findings) - 1), stable)
             last  == findings[Len(findings)]
         IN IF stable THEN InsertStable(front, last) ELSE InsertBeforeTies(front, last)

\* mutant: the sort is not stable (equal keys come out in reverse order)
prioritize_findings_unstable(findings) == SortedWith(findings, FALSE)

prioritize_findings(findings) == SortedWith(findings, TRUE)

PrioritizeInit ==
    /\ ScanIdle
    /\ ApiIdle
    /\ p_findings \in SeqsUpTo(ScoredFindings, MaxLen)
    /\ p_op = "none"
    /\ p_arg = None
    /\ p_out = None
    /\ p_prev = None

\* mutant: findings.sort(key=...) sorts the caller's list in place
ApplyPrioritize_inplace ==
    /\ p_op = "none"
    /\ p_op' = "prioritize_findings"
    /\ p_out' = prioritize_findings(p_findings)
    /\ p_findings' = p_out'
    /\ UNCHANGED <<p_arg, p_prev>>
    /\ UNCHANGED scan_vars
    /\ UNCHANGED api_vars

\* risk_engine.prioritize_findings(findings)
ApplyPrioritize ==
    /\ p_op = "none"
    /\ p_op' = "prioritize_findings"
    /\ p_out' = prioritize_findings(p_findings)
    /\ UNCHANGED <<p_findings, p_arg, p_prev>>
    /\ UNCHANGED scan_vars
    /\ UNCHANGED api_vars

\* prioritize_findings, and the other functions that take the finding list
PrioritizeNext ==
    \/ ApplyPrioritize
    \/ ApplyScore
    \/ ApplyHistogram
    \/ ApplyFilter

SpecPrioritize == PrioritizeInit /\ [][PrioritizeNext]_vars

(***************************************************************************)
(* SpecTrend: calculate_subscription_risk_trend applied to a list of scan  *)
(* results. The trend is kept in hundredths of a percent (trend_x100), the *)
(* unit round(change_percent, 2) rounds to.                                *)
(***************************************************************************)
\* the fields of a ScanResult the trend reads
ScanResultOf(ts, score) == [scan_timestamp |-> ts, risk_score |-> score]

\* ScanResult.risk_score is an integer in 0..100 (Field(..., ge=0, le=100))
AllScores == 0..100

\* scores of the lists of up to MaxResults results
SampleScores == {0, 40, 50, 52}

TrendInputs ==
    SeqsUpTo({ScanResultOf(ts, score) : ts \in 1..MaxResults, score \in SampleScores},
             MaxResults)
    \cup {<<ScanResultOf(ts[1], a), ScanResultOf(ts[2], b)>> :
            ts \in {<<1, 2>>, <<2, 1>>}, a \in AllScores, b \in AllScores}

\* round(num / den, 0) for den > 0 as Python rounds: ties go to the even integer
RoundHalfEven(num, den) ==
    LET q == num \div den
        r == num % den
    IN IF 2 * r > den \/ (2 * r = den /\ q % 2 = 1) THEN q + 1 ELSE q

\* sorted(scan_results, key=lambda x: x.scan_timestamp, reverse=True): stable,
\* a result goes behind the results whose timestamp is not smaller
\* mutant: the results are taken in the order of the list
SortedByTimestampDesc_unsorted(scan_results) == scan_results

RECURSIVE SortedByTimestampDesc(_)
SortedByTimestampDesc(scan_results) ==
    IF scan_results = <<>> THEN <<>>
    ELSE LET front == SortedByTimestampDesc(SubSeq(scan_results, 1, Len(scan_results) - 1))
             last  == scan_results[Len(scan_results)]
             n     == Cardinality({i \in DOMAIN front :
                                     front[i].scan_timestamp >= last.scan_timestamp})
         IN SubSeq(front, 1, n) \o <<last>> \o SubSeq(front, n + 1, Len(front))

\* lines 86-98 with the limit of the stable band as a parameter
TrendOf(current_score, previous_score, strict) ==
    IF previous_score = 0
    THEN [trend_x100 |-> 0, direction |-> "stable",
          current_score |-> current_score, previous_score |-> previous_score]
    ELSE LET trend == RoundHalfEven((current_score - previous_score) * 10000,
                                    previous_score)
             up    == IF strict THEN trend > 500 ELSE trend >= 500
             down  == IF strict THEN trend < 0 - 500 ELSE trend <= 0 - 500
             direction ==
                IF up THEN (IF current_score < previous_score
                            THEN "improving" ELSE "degrading")
                ELSE IF down THEN (IF current_score > previous_score
                                   THEN "degrading" ELSE "improving")
                ELSE "stable"
         IN [trend_x100 |-> trend, direction |-> direction,
             current_score |-> current_score, previous_score |-> previous_score]

\* mutant: the comparisons are >= 5 and <= -5
calculate_subscription_risk_trend_lax(scan_results) ==
    IF Len(scan_results) < 2
    THEN [trend_x100 |-> 0, direction |-> "stable"]
    ELSE LET recent_scans == SubSeq(SortedByTimestampDesc(scan_results), 1, 2)
         IN TrendOf(recent_scans[1].risk_score, recent_scans[2].risk_score, FALSE)

calculate_subscription_risk_trend(scan_results) ==
    IF Len(scan_results) < 2
    THEN [trend_x100 |-> 0, direction |-> "stable"]
    ELSE LET recent_scans == SubSeq(SortedByTimestampDesc(scan_results), 1, 2)
         IN TrendOf(recent_scans[1].risk_score, recent_scans[2].risk_score, TRUE)

TrendInit ==
    /\ ScanIdle
    /\ ApiIdle
    /\ p_findings \in TrendInputs
    /\ p_op = "none"
    /\ p_arg = None
    /\ p_out = None
    /\ p_prev = None

\* risk_engine.calculate_subscription_risk_trend(scan_results)
ApplyTrend ==
    /\ p_op = "none"
    /\ p_op' = "calculate_subscription_risk_trend"
    /\ p_out' = calculate_subscription_risk_trend(p_findings)
    /\ UNCHANGED <<p_findings, p_arg, p_prev>>
    /\ UNCHANGED scan_vars
    /\ UNCHANGED api_vars

\* the same results handed over in another order
PermuteTrend ==
    /\ p_op = "calculate_subscription_risk_trend"
    /\ \E perm \in Permutations(DOMAIN p_findings) :
        p_findings' = [i \in DOMAIN p_findings |-> p_findings[perm[i]]]
    /\ p_prev' = p_out
    /\ p_out' = calculate_subscription_risk_trend(p_findings')
    /\ p_op' = "permuted_trend"
    /\ UNCHANGED p_arg
    /\ UNCHANGED scan_vars
    /\ UNCHANGED api_vars

TrendNext ==
    \/ ApplyTrend
    \/ PermuteTrend

SpecTrend == TrendInit /\ [][TrendNext]_vars

(***************************************************************************)
(* SpecRecommend: _generate_recommendations applied to a list made of two  *)
(* runs of equal findings, long enough for every threshold to be crossed.  *)
(* A recommendation is modelled by a tag naming its text.                  *)
(***************************************************************************)
\* the value of a ResourceType member, which is what Counter.get looks up
ResourceTypeValue ==
    [t \in ResourceType |->
        CASE t = "STORAGE_ACCOUNT"        -> "Microsoft.Storage/storageAccounts"
          [] t = "NETWORK_SECURITY_GROUP" -> "Microsoft.Network/networkSecurityGroups"
          [] t = "KEY_VAULT"              -> "Microsoft.KeyVault/vaults"
          [] t = "VIRTUAL_MACHINE"        -> "Microsoft.Compute/virtualMachines"
          [] t = "DISK"                   -> "Microsoft.Compute/disks"
          [] t = "DATABRICKS_WORKSPACE"   -> "Microsoft.Databricks/workspaces"]

\* Counter(finding.resource_type for finding in findings), keyed by value
TypeCounter(findings) ==
    [v \in {ResourceTypeValue[findings[i].resource_type] : i \in DOMAIN findings} |->
        Cardinality({i \in DOMAIN findings :
                        ResourceTypeValue[findings[i].resource_type] = v})]

\* dict.get(key, default)
DictGet(d, key, default) == IF key \in DOMAIN d THEN d[key] ELSE default

\* recommendations.append(text) when the condition holds
AppendIf(recommendations, cond, text) ==
    IF cond THEN Append(recommendations, text) ELSE recommendations

\* lines 176-218 with the threshold of the high narrative as a parameter
RecommendationsWith(findings, high_threshold) ==
    LET severity_counts == get_findings_by_severity(findings)
        resource_types  == TypeCounter(findings)
        r1 == AppendIf(<<>>, severity_counts["critical"] > 0, "critical")
        r2 == AppendIf(r1, severity_counts["high"] > high_threshold, "high")
        r3 == AppendIf(r2,
                DictGet(resource_types, "Microsoft.Storage/storageAccounts", 0) > 3,
                "storage")
        r4 == AppendIf(r3,
                DictGet(resource_types, "Microsoft.Network/networkSecurityGroups", 0) > 2,
                "nsg")
        r5 == AppendIf(r4,
                DictGet(resource_types, "Microsoft.KeyVault/vaults", 0) > 1,
                "keyvault")
        r6 == AppendIf(r5, Len(findings) > 20, "monitoring")
    IN AppendIf(r6, r6 = <<>>, "fallback")

\* mutant: the high narrative is emitted from five high findings on
generate_recommendations_ge(findings) == RecommendationsWith(findings, 4)

generate_recommendations(findings) == RecommendationsWith(findings, 5)

\* n copies of one finding
Run(f, n) == [i \in 1..n |-> f]

RecommendFindings == UNION {FindingsOf(t) : t \in ResourceType}

RecommendInit ==
    /\ ScanIdle
    /\ ApiIdle
    /\ \E f1 \in RecommendFindings, f2 \in RecommendFindings :
       \E a \in 0..MaxRun, b \in 0..MaxRun :
            p_findings = Run(f1, a) \o Run(f2, b)
    /\ p_op = "none"
    /\ p_arg = None
    /\ p_out = None
    /\ p_prev = None

\* risk_engine._generate_recommendations(findings)
ApplyRecommend ==
    /\ p_op = "none"
    /\ p_op' = "generate_recommendations"
    /\ p_out' = generate_recommendations(p_findings)
    /\ UNCHANGED <<p_findings, p_arg, p_prev>>
    /\ UNCHANGED scan_vars
    /\ UNCHANGED api_vars

RecommendNext == ApplyRecommend

SpecRecommend == RecommendInit /\ [][RecommendNext]_vars

(***************************************************************************)
(* SpecApi: api.py. The handlers start_scan, delete_scan, get_scan_result  *)
(* and the background task run_background_scan, which is one coroutine per *)
(* scan id: its statements between two awaits run in one step, and other   *)
(* handlers run while it awaits the engine.                                *)
(***************************************************************************)
\* the fields class ScanStatus declares
scan_status_fields ==
    {"scan_id", "status", "progress", "started_at", "completed_at", "error_message"}

\* assigning an attribute of a pydantic model: a name that is not a declared
\* field raises ValueError
setattr_allowed(name) == name \in scan_status_fields

\* ScanStatus(scan_id=scan_id, status="pending", progress=0); result is the
\* attribute line 294 assigns, None while the object has no such attribute
NewScanStatus ==
    [status |-> "pending", progress |-> 0, completed_at |-> None,
     error_message |-> None, result |-> None]

\* validate_scan_request: valid unless a subscription is named and
\* validate_access refuses it
validate_scan_request(subscription_id, access_ok) ==
    [valid |-> ~(subscription_id # None /\ ~access_ok)]

\* `except Exception` at the end of start_scan (line 129): HTTPException
\* derives from Exception
start_scan_except(exc) == exc \in {"Exception", "HTTPException"}

\* the status code start_scan answers with when it raises HTTPException(code)
\* inside its try block
start_scan_raise(code) == IF start_scan_except("HTTPException") THEN 500 ELSE code

\* the engine function line 284 chooses
engine_call(subscription_id) ==
    IF subscription_id = None THEN "scan_all_subscriptions" ELSE "scan_subscription"

\* mutant: the handler sets progress back to 0
mark_failed_reset(scan_status, error_message) ==
    [scan_status EXCEPT !.status = "failed", !.progress = 0,
                        !.error_message = Some(error_message),
                        !.completed_at = Some("utcnow")]

\* lines 309-311
mark_failed(scan_status, error_message) ==
    [scan_status EXCEPT !.status = "failed",
                        !.error_message = Some(error_message),
                        !.completed_at = Some("utcnow")]

\* lines 294-299
mark_completed(scan_status, scan_result) ==
    [scan_status EXCEPT !.result = Some(scan_result), !.status = "completed",
                        !.progress = 100, !.completed_at = Some("utcnow")]

\* the next scan id uuid4 hands out
FreshId == Cardinality({id \in ScanIds : task[id] # NoTask}) + 1

\* POST /scan/start
StartScan ==
    /\ \E subscription_id \in {None, Some("sub-1")}, access_ok \in BOOLEAN :
        LET validation == validate_scan_request(subscription_id, access_ok)
        IN IF ~validation.valid
           THEN /\ response' = [op |-> "start_scan", scan_id |-> 0,
                                status_code |-> start_scan_raise(400),
                                request_valid |-> FALSE]
                /\ UNCHANGED <<active_scans, task>>
           ELSE /\ FreshId \in ScanIds
                /\ active_scans' =
                        [id \in DOMAIN active_scans \cup {FreshId} |->
                            IF id = FreshId THEN NewScanStatus ELSE active_scans[id]]
                /\ task' = [task EXCEPT ![FreshId] =
                                [at |-> "scheduled", subscription_id |-> subscription_id]]
                /\ response' = [op |-> "start_scan", scan_id |-> FreshId,
                                status_code |-> 200, request_valid |-> TRUE]
    /\ UNCHANGED deleted
    /\ UNCHANGED scan_vars
    /\ UNCHANGED pure_vars

\* run_background_scan up to its await (lines 277-288). When the entry is gone
\* line 279 raises KeyError, the handler at line 307 catches it, and line 309
\* raises KeyError again, which leaves the task
RunBegin ==
    /\ \E id \in ScanIds :
        /\ task[id].at = "scheduled"
        /\ IF id \in DOMAIN active_scans
           THEN /\ active_scans' = [active_scans EXCEPT ![id].status = "running",
                                                        ![id].progress = 10]
                /\ task' = [task EXCEPT ![id].at = engine_call(task[id].subscription_id)]
           ELSE /\ task' = [task EXCEPT ![id].at = "KeyError"]
                /\ UNCHANGED active_scans
    /\ UNCHANGED <<response, deleted>>
    /\ UNCHANGED scan_vars
    /\ UNCHANGED pure_vars

\* run_background_scan after the engine call returned (lines 291-311)
RunResume ==
    /\ \E id \in ScanIds :
        /\ task[id].at \in {"scan_subscription", "scan_all_subscriptions"}
        /\ IF id \notin DOMAIN active_scans
           THEN /\ task' = [task EXCEPT ![id].at = "KeyError"]
                /\ UNCHANGED active_scans
           ELSE LET at90 == [active_scans[id] EXCEPT !.progress = 90]
                IN /\ active_scans' =
                        [active_scans EXCEPT ![id] =
                            IF setattr_allowed("result")
                            THEN mark_completed(at90, "scan_result")
                            ELSE mark_failed(at90, "ValueError")]
                   /\ task' = [task EXCEPT ![id].at = "returned"]
    /\ UNCHANGED <<response, deleted>>
    /\ UNCHANGED scan_vars
    /\ UNCHANGED pure_vars

\* DELETE /scan/{scan_id}
DeleteScan ==
    /\ \E id \in ScanIds :
        IF id \notin DOMAIN active_scans
        THEN /\ response' = [op |-> "delete_scan", scan_id |-> id,
                             status_code |-> 404, request_valid |-> TRUE]
             /\ UNCHANGED <<active_scans, deleted>>
        ELSE /\ active_scans' = [i \in DOMAIN active_scans \ {id} |-> active_scans[i]]
             /\ deleted' = deleted \cup {id}
             /\ response' = [op |-> "delete_scan", scan_id |-> id,
                             status_code |-> 200, request_valid |-> TRUE]
    /\ UNCHANGED task
    /\ UNCHANGED scan_vars
    /\ UNCHANGED pure_vars

\* the status code of GET /scan/{scan_id}/result
get_scan_result(scan_id) ==
    IF scan_id \notin DOMAIN active_scans THEN 404
    ELSE IF active_scans[scan_id].status # "completed" THEN 400
    ELSE IF active_scans[scan_id].result = None THEN 404
    ELSE 200

\* GET /scan/{scan_id}/result
GetScanResult ==
    /\ \E id \in ScanIds :
        response' = [op |-> "get_scan_result", scan_id |-> id,
                     status_code |-> get_scan_result(id), request_valid |-> TRUE]
    /\ UNCHANGED <<active_scans, task, deleted>>
    /\ UNCHANGED scan_vars
    /\ UNCHANGED pure_vars

ApiInit == ScanIdle /\ PureIdle /\ ApiIdle

ApiNext ==
    \/ StartScan
    \/ RunBegin
    \/ RunResume
    \/ DeleteScan
    \/ GetScanResult

SpecApi == ApiInit /\ [][ApiNext]_vars

(***************************************************************************)
(* The claims.                                                             *)
(***************************************************************************)
Granted == access = Some(TRUE)
Denied == access = Some(FALSE)
Returned == pc = "done" /\ result # None

\* the severity order the claims state: info < low < medium < high < critical
ClaimedOrder == <<"info", "low", "medium", "high", "critical">>
Rank(sev) == CHOOSE i \in DOMAIN ClaimedOrder : ClaimedOrder[i] = sev

\* C1: failure isolation. A scan of an accessible target that is not cancelled
\* ends with a ScanResult and no error; every selected scanner was invoked,
\* whatever the scanners before it did; the merged list is at every moment the
\* concatenation of what the scanners that did not fail returned, and the
\* result's findings are that concatenation, filtered.
C1_FailureIsolation ==
    /\ (pc \in {"loop", "inflight"} => all_findings = delivered)
    /\ (pc = "done" /\ Granted /\ error # "CancelledError" =>
            /\ error = Nothing
            /\ result # None
            /\ invoked = get_scanners_to_run(scan_request)
            /\ Get(result).findings = apply_severity_threshold(delivered, scan_request))

\* C1 witness: the first and the last scanner returned one finding each, one
\* of the scanners between them raised, and both findings are in the result.
C1_Witness ==
    /\ Returned
    /\ Len(invoked) >= 3
    /\ failures = 1
    /\ Len(Get(result).findings) = 2
    /\ Get(result).findings[1].resource_type = invoked[1]
    /\ Get(result).findings[2].resource_type = invoked[Len(invoked)]

\* C2 (as claimed): when the access check returns false the scan ends with an
\* error and without a ScanResult.
C2_AccessDeniedRaises ==
    pc = "done" /\ Denied => (result = None /\ error # Nothing)

\* C3: a scan cancelled while a scanner call is in flight ends at once with
\* CancelledError and never has a ScanResult.
C3_CancelledNoResult ==
    cancelled => (pc = "done" /\ error = "CancelledError" /\ result = None)

\* C3 witness: the scan is cancelled during the second scanner, after the first
\* had returned findings.
C3_Witness ==
    /\ cancelled
    /\ Len(invoked) = 2
    /\ all_findings # <<>>
    /\ result = None
    /\ error = "CancelledError"

\* C4: calculate_overall_risk_score returns an integer in 0..100, and 0 for the
\* empty list.
C4_ScoreInRange ==
    p_op \in {"calculate_overall_risk_score", "add_critical"} =>
        /\ p_out \in 0..100
        /\ (p_findings = <<>> => p_out = 0)

\* C4 witness: a list of several severities has been scored.
C4_Witness ==
    /\ p_op = "calculate_overall_risk_score"
    /\ Len(p_findings) = MaxLen
    /\ Cardinality({p_findings[i].severity : i \in DOMAIN p_findings}) >= 2
    /\ p_out \in 0..100

\* C5: get_findings_by_severity returns a map with exactly the five severity
\* keys, every value >= 0, the values summing to the number of findings.
C5_HistogramTotal ==
    p_op = "get_findings_by_severity" =>
        /\ DOMAIN p_out = SeverityLevel
        /\ \A s \in DOMAIN p_out : p_out[s] \in Nat
        /\ SumOver(DOMAIN p_out, p_out) = Len(p_findings)

\* C5 witness: a histogram with a zero-filled level and a level counted twice.
C5_Witness ==
    /\ p_op = "get_findings_by_severity"
    /\ Len(p_findings) = MaxLen
    /\ \E s \in SeverityLevel : p_out[s] = 0
    /\ \E s \in SeverityLevel : p_out[s] >= 2

\* C6 (as claimed): every ScanResult returned, on every path, has a
\* findings_by_severity map with all five severity keys.
C6_ResultHasFiveKeys ==
    Returned => DOMAIN Get(result).findings_by_severity = SeverityLevel

\* C7: the severity filter returns exactly the findings whose rank is at least
\* the threshold's, in input order; threshold critical keeps only critical
\* findings, threshold info returns the input.
C7_FilterByRank ==
    p_op = "filter_findings_by_severity" =>
        LET keep == {i \in DOMAIN p_findings :
                        Rank(p_findings[i].severity) >= Rank(p_arg)}
            nth(j) == CHOOSE i \in keep : Cardinality({k \in keep : k <= i}) = j
        IN /\ Len(p_out) = Cardinality(keep)
           /\ \A j \in DOMAIN p_out : p_out[j] = p_findings[nth(j)]
           /\ (p_arg = "critical" =>
                   \A j \in DOMAIN p_out : p_out[j].severity = "critical")
           /\ (p_arg = "info" => p_out = p_findings)

\* C7 witness: a filter that kept a finding at the threshold itself and
\* dropped one below it.
C7_Witness ==
    /\ p_op = "filter_findings_by_severity"
    /\ \E j \in DOMAIN p_out : p_out[j].severity = p_arg
    /\ Len(p_out) < Len(p_findings)
    /\ Len(p_out) >= 2

\* C8 (as claimed): a scan whose threshold is the default (no request at all,
\* or a request whose threshold is the default low) returns no info finding.
C8_DefaultThresholdLow ==
    (Returned /\ (scan_request = None
                  \/ Get(scan_request).severity_threshold = DefaultSeverityThreshold)) =>
        \A i \in DOMAIN Get(result).findings :
            Get(result).findings[i].severity # "info"

\* C9: in every ScanResult, risk_score is the overall score of the findings the
\* result holds and total_findings is their number.
C9_ScoreOfResultFindings ==
    Returned =>
        /\ Get(result).risk_score = calculate_overall_risk_score(Get(result).findings)
        /\ Get(result).total_findings = Len(Get(result).findings)

\* C9 witness: a result from which the filter removed every finding the
\* scanners had returned.
C9_Witness ==
    /\ Returned
    /\ Granted
    /\ delivered # <<>>
    /\ Get(result).findings = <<>>
    /\ Get(result).risk_score = 0

\* C10: adding one critical finding to a non-empty list never lowers the
\* overall score.
C10_Monotone ==
    (p_op = "add_critical" /\ Len(p_findings) >= 2) => p_out >= p_prev

\* C10 witness: a critical finding was added to a non-empty list without a
\* critical one.
C10_Witness ==
    /\ p_op = "add_critical"
    /\ Len(p_findings) >= 2
    /\ Cardinality({i \in DOMAIN p_findings : p_findings[i].severity = "critical"}) = 1
    /\ p_out >= p_prev

\* the order the claim states, and its ties
C11_Before(a, b) ==
    \/ Rank(a.severity) > Rank(b.severity)
    \/ (a.severity = b.severity /\ a.risk_score > b.risk_score)

C11_Tie(a, b) == a.severity = b.severity /\ a.risk_score = b.risk_score

\* C11: prioritize_findings returns the findings sorted by severity, critical
\* first, and within one severity by risk score descending; findings equal in
\* both keep their input order. Each input finding i sits in the output behind
\* the findings that come before it in that order and the equal ones before it
\* in the input.
C11_StableSort ==
    p_op = "prioritize_findings" =>
        /\ Len(p_out) = Len(p_findings)
        /\ \A i \in DOMAIN p_findings :
            LET ahead == {k \in DOMAIN p_findings : C11_Before(p_findings[k], p_findings[i])}
                ties  == {k \in DOMAIN p_findings :
                            k < i /\ C11_Tie(p_findings[k], p_findings[i])}
            IN p_out[1 + Cardinality(ahead) + Cardinality(ties)] = p_findings[i]

\* C11 witness: two findings equal in severity and score but not the same
\* finding, behind a less severe one, have been moved to the front in their
\* input order.
C11_Witness ==
    /\ p_op = "prioritize_findings"
    /\ Len(p_findings) = 3
    /\ C11_Tie(p_findings[2], p_findings[3])
    /\ p_findings[2] # p_findings[3]
    /\ C11_Before(p_findings[2], p_findings[1])
    /\ p_out = <<p_findings[2], p_findings[3], p_findings[1]>>

\* the timestamps of a list of scan results are pairwise distinct
DistinctTimestamps(results) ==
    \A i, j \in DOMAIN results :
        i # j => results[i].scan_timestamp # results[j].scan_timestamp

\* the score of the result with the k-th greatest timestamp
ScoreOfRecent(results, k) ==
    LET i == CHOOSE x \in DOMAIN results :
                Cardinality({y \in DOMAIN results :
                    results[y].scan_timestamp >= results[x].scan_timestamp}) = k
    IN results[i].risk_score

\* the direction the claim states for the scores cur (current) and prev (previous)
ClaimedDirection(cur, prev) ==
    IF prev = 0 THEN "stable"
    ELSE IF (prev - cur) * 100 > 5 * prev THEN "improving"
    ELSE IF (cur - prev) * 100 > 5 * prev THEN "degrading"
    ELSE "stable"

\* C12 (as claimed): with two or more results and previous > 0 the trend is
\* exactly (current - previous) / previous x 100; the direction is improving,
\* degrading or stable by the 5% band; previous = 0 and fewer than two results
\* give trend 0 and stable.
C12_TrendExact ==
    p_op = "calculate_subscription_risk_trend" =>
        IF Len(p_findings) < 2
        THEN p_out.trend_x100 = 0 /\ p_out.direction = "stable"
        ELSE /\ p_out.direction =
                    ClaimedDirection(p_out.current_score, p_out.previous_score)
             /\ IF p_out.previous_score = 0
                THEN p_out.trend_x100 = 0
                ELSE p_out.trend_x100 * p_out.previous_score =
                        (p_out.current_score - p_out.previous_score) * 10000

\* C12 (amended): as claimed, but the trend is (current - previous) / previous
\* x 100 rounded to two decimals, that is within half a hundredth of it; with
\* distinct timestamps current and previous are the scores of the two most
\* recent results.
C12_TrendRounded ==
    p_op = "calculate_subscription_risk_trend" =>
        IF Len(p_findings) < 2
        THEN p_out.trend_x100 = 0 /\ p_out.direction = "stable"
        ELSE /\ p_out.direction =
                    ClaimedDirection(p_out.current_score, p_out.previous_score)
             /\ IF p_out.previous_score = 0
                THEN p_out.trend_x100 = 0
                ELSE LET exact == (p_out.current_score - p_out.previous_score) * 10000
                         got   == p_out.trend_x100 * p_out.previous_score
                     IN /\ 2 * (got - exact) <= p_out.previous_score
                        /\ 2 * (exact - got) <= p_out.previous_score
             /\ (DistinctTimestamps(p_findings) =>
                    /\ p_out.current_score = ScoreOfRecent(p_findings, 1)
                    /\ p_out.previous_score = ScoreOfRecent(p_findings, 2))

\* C12 witness: previous 30 and current 40, the older result first in the
\* list: the trend is 33.33 and the direction degrading.
C12_Witness ==
    /\ p_op = "calculate_subscription_risk_trend"
    /\ p_findings = <<ScanResultOf(1, 30), ScanResultOf(2, 40)>>
    /\ p_out.trend_x100 = 3333
    /\ p_out.direction = "degrading"

\* C13 (as claimed): the selected scanners run concurrently: while one scan()
\* is in flight and another selected scanner has not been started, that scanner
\* can be started without waiting for the one in flight to return.
C13_StartWhileInFlight ==
    (pc = "inflight" /\ scanners_to_run # <<>>) => ENABLED StartScanner

\* the resource types a request selects, <<>> when it selects none
Selection ==
    IF scan_request # None /\ Get(scan_request).resource_types # None
    THEN Get(Get(scan_request).resource_types)
    ELSE <<>>

\* C14: in a scan that ran to its end, the scanners invoked are, each once,
\* the registered ones among the selected resource types when the selection is
\* non-empty (a selected type without a scanner is ignored and the scan still
\* returns its result), and every registered scanner when there is no request
\* or the selection is absent or empty.
C14_ScannersRun ==
    (Returned /\ Granted) =>
        /\ \A i, j \in DOMAIN invoked : invoked[i] = invoked[j] => i = j
        /\ {invoked[i] : i \in DOMAIN invoked} =
                IF Selection # <<>>
                THEN {Selection[i] : i \in DOMAIN Selection} \cap Registered
                ELSE Registered

\* C14 witness: the selection names DISK, which has no scanner, and KEY_VAULT;
\* only the key vault scanner ran and the scan returned its result.
C14_Witness ==
    /\ Returned
    /\ Granted
    /\ Selection = <<"DISK", "KEY_VAULT">>
    /\ invoked = <<"KEY_VAULT">>

\* the severity of a list that is highest under info < low < medium < high <
\* critical
HighestRanked(findings) ==
    CHOOSE s \in {findings[i].severity : i \in DOMAIN findings} :
        \A j \in DOMAIN findings : Rank(findings[j].severity) <= Rank(s)

\* C15 (as claimed): the per-resource score of a non-empty list is the whole
\* part of min(100, w x min(1.5, 1 + n/10)), w the weight of the finding that
\* is highest under info < low < medium < high < critical.
C15_HighestSeverityBase ==
    (p_op = "calculate_resource_risk_score" /\ p_findings # <<>>) =>
        LET w == severity_weights[HighestRanked(p_findings)]
            claimed_x10 == Min(1000, w * Min(15, 10 + Len(p_findings)))
        IN p_out * 10 <= claimed_x10 /\ claimed_x10 < (p_out + 1) * 10

\* the weights and the base x density product of the claim, as a fraction
C16_WeightedSum(findings) ==
    SumOver(DOMAIN findings, [i \in DOMAIN findings |-> severity_weights[findings[i].severity]])

C16_TotalWeight(findings) ==
    LET present == {findings[i].severity : i \in DOMAIN findings}
    IN SumOver(present, [sev \in present |-> severity_weights[sev]])

\* C16: for a non-empty list of n findings calculate_overall_risk_score is
\* min(100, round(base x density)), base = weighted sum / sum of the weights
\* present x 100 and density = min(1.5, 1 + n/100), the cap applied last.
C16_ScoreFormula ==
    (p_op = "calculate_overall_risk_score" /\ p_findings # <<>>) =>
        p_out = Min(100, RoundHalfEven(
                    C16_WeightedSum(p_findings) * 100 * Min(150, 100 + Len(p_findings)),
                    C16_TotalWeight(p_findings) * 100))

\* C16 witness: one critical and two high findings are scored 100.
C16_Witness ==
    /\ p_op = "calculate_overall_risk_score"
    /\ Len(p_findings) = 3
    /\ p_findings[1].severity = "critical"
    /\ p_findings[2].severity = "high"
    /\ p_findings[3].severity = "high"
    /\ p_out = 100

\* the label the claim gives a score
ClaimedLabel(score) ==
    CASE score >= 80               -> "Critical"
      [] score >= 60 /\ score < 80 -> "High"
      [] score >= 40 /\ score < 60 -> "Medium"
      [] score >= 20 /\ score < 40 -> "Low"
      [] score < 20                -> "Minimal"

\* C17: get_risk_level labels a score Critical from 80, High from 60, Medium
\* from 40, Low from 20 and Minimal below, and the CLI's _get_risk_level gives
\* the same label for every score in 0..100.
C17_RiskLevels ==
    p_op = "get_risk_level" =>
        /\ p_out[1] = ClaimedLabel(p_arg)
        /\ p_out[2] = p_out[1]

\* C17 witness: the score 80, the lowest Critical one, labelled by both.
C17_Witness ==
    /\ p_op = "get_risk_level"
    /\ p_arg = 80
    /\ p_out = <<"Critical", "Critical">>

\* the number of findings of a list with the given severity, resource type
CountSeverity(findings, sev) ==
    Cardinality({i \in DOMAIN findings : findings[i].severity = sev})

CountType(findings, rtype) ==
    Cardinality({i \in DOMAIN findings : findings[i].resource_type = rtype})

Emitted(tag) == \E i \in DOMAIN p_out : p_out[i] = tag

\* C18: _generate_recommendations emits the critical narrative iff there is a
\* critical finding, the high narrative iff there are more than 5 high ones,
\* the storage, network security group and key vault narratives iff there are
\* more than 3, 2 and 1 findings of that resource type, the monitoring
\* narrative iff there are more than 20 findings, and the fallback narrative
\* iff none of these holds; the list is never empty.
C18_Triggers ==
    p_op = "generate_recommendations" =>
        LET critical  == CountSeverity(p_findings, "critical") > 0
            high      == CountSeverity(p_findings, "high") > 5
            storage   == CountType(p_findings, "STORAGE_ACCOUNT") > 3
            nsg       == CountType(p_findings, "NETWORK_SECURITY_GROUP") > 2
            keyvault  == CountType(p_findings, "KEY_VAULT") > 1
            monitor   == Len(p_findings) > 20
        IN /\ Emitted("critical") <=> critical
           /\ Emitted("high") <=> high
           /\ Emitted("storage") <=> storage
           /\ Emitted("nsg") <=> nsg
           /\ Emitted("keyvault") <=> keyvault
           /\ Emitted("monitoring") <=> monitor
           /\ Emitted("fallback") <=>
                ~(critical \/ high \/ storage \/ nsg \/ keyvault \/ monitor)
           /\ p_out # <<>>

\* C18 witness: 21 findings, more than five of them high and more than three
\* on storage accounts, none critical: the high, storage and monitoring
\* narratives are emitted, in that order, and nothing else.
C18_Witness ==
    /\ p_op = "generate_recommendations"
    /\ Len(p_findings) = 21
    /\ p_out = <<"high", "storage", "monitoring">>

\* C19: a scanner is selected, constructed or invoked only after the access
\* check of the scan succeeded; when the check refuses the subscription no
\* scanner is invoked in that scan.
C19_AccessBeforeScanners ==
    /\ (pc \in {"select", "loop", "inflight"} \/ invoked # <<>>) => Granted
    /\ Denied => (invoked = <<>> /\ current = Nothing)

\* C19 witness: the access check refused the subscription, the scan is over
\* and no scanner was invoked.
C19_Witness ==
    /\ Denied
    /\ pc = "done"
    /\ invoked = <<>>

\* the number of distinct resource ids among the findings of one resource type
IdsOfType(findings, rtype) ==
    Cardinality({findings[i].resource_id :
                    i \in {j \in DOMAIN findings : findings[j].resource_type = rtype}})

RECURSIVE SumOfIds(_, _)
SumOfIds(findings, rtypes) ==
    IF rtypes = {} THEN 0
    ELSE LET t == CHOOSE x \in rtypes : TRUE
         IN IdsOfType(findings, t) + SumOfIds(findings, rtypes \ {t})

\* C20 (as claimed): total_resources_scanned of a returned ScanResult is the
\* number of distinct resource ids among the findings of the result.
C20_DistinctInResult ==
    Returned =>
        Get(result).total_resources_scanned =
            Cardinality({Get(result).findings[i].resource_id :
                            i \in DOMAIN Get(result).findings})

\* C20 (amended): total_resources_scanned of a returned ScanResult is the sum,
\* over the scanners that returned, of the number of distinct resource ids
\* among the findings that scanner returned, before the severity filter; it
\* is 0 in the result of a scan whose access check failed.
C20_SumPerScanner ==
    Returned =>
        Get(result).total_resources_scanned =
            IF Granted THEN SumOfIds(delivered, Registered) ELSE 0

\* C20 witness: two scanners returned one finding each for the same resource
\* id, the severity filter removed one of them, and the result counts 2.
C20_Witness ==
    /\ Returned
    /\ Len(delivered) = 2
    /\ delivered[1].resource_type # delivered[2].resource_type
    /\ delivered[1].resource_id = delivered[2].resource_id
    /\ Len(Get(result).findings) = 1
    /\ Get(result).total_resources_scanned = 2

\* the findings of a list that carry the given resource type, in order
OfType(findings, rtype) ==
    SelectSeq(findings, LAMBDA f : f.resource_type = rtype)

\* a is b with some elements left out
RECURSIVE IsSubSeq(_, _)
IsSubSeq(a, b) ==
    IF a = <<>> THEN TRUE
    ELSE IF b = <<>> THEN FALSE
    ELSE IF Head(a) = Head(b) THEN IsSubSeq(Tail(a), Tail(b))
    ELSE IsSubSeq(a, Tail(b))

\* C21: the findings of one scanner that are in the ScanResult are there in
\* the order the scanner returned them, after the merge and the severity
\* filter.
C21_MergeOrder ==
    (Returned /\ Granted) =>
        \A rtype \in Registered :
            IsSubSeq(OfType(Get(result).findings, rtype), OfType(delivered, rtype))

\* C21 witness: one scanner returned a high and then a critical finding, the
\* request's threshold is high, and the result holds both in that order.
C21_Witness ==
    /\ Returned
    /\ Granted
    /\ scan_request # None
    /\ Get(scan_request).severity_threshold = "high"
    /\ Len(delivered) = 2
    /\ delivered[1].resource_type = delivered[2].resource_type
    /\ delivered[1].severity = "high"
    /\ delivered[2].severity = "critical"
    /\ Get(result).findings = delivered

\* C22 (as claimed): the scan_timestamp of a returned ScanResult is the
\* instant the call began, before the access check and before any scanner.
C22_StampedAtStart ==
    Returned => scan_timestamp = Some(start_time)

\* C22 (amended): the scan_timestamp of a returned ScanResult is taken when
\* the ScanResult is built, in the last step of the call: after the call
\* began, and after the access check and the scanners that ran.
C22_StampedAtEnd ==
    Returned =>
        /\ scan_timestamp = Some(now - 1)
        /\ Get(scan_timestamp) > start_time
        /\ Granted => Get(scan_timestamp) >= start_time + 3 + 2 * Len(invoked)

\* C22 witness: two scanners ran and the result is stamped seven steps after
\* the call began.
C22_Witness ==
    /\ Returned
    /\ Granted
    /\ Len(invoked) = 2
    /\ scan_timestamp = Some(start_time + 7)

\* C23: for two or more results with pairwise distinct timestamps the trend
\* takes current_score from the result with the greatest timestamp and
\* previous_score from the one with the second greatest, and handing over the
\* same results in another order gives the same output.
C23_PermutationInvariant ==
    (p_op = "permuted_trend" /\ Len(p_findings) >= 2 /\ DistinctTimestamps(p_findings)) =>
        /\ p_out = p_prev
        /\ p_out.current_score = ScoreOfRecent(p_findings, 1)
        /\ p_out.previous_score = ScoreOfRecent(p_findings, 2)

\* C23 witness: three results, the oldest first and the newest in the middle
\* after the reordering; current is the newest score, previous the next.
C23_Witness ==
    /\ p_op = "permuted_trend"
    /\ p_findings = <<ScanResultOf(1, 40), ScanResultOf(3, 52), ScanResultOf(2, 50)>>
    /\ p_out = p_prev
    /\ p_out.current_score = 52
    /\ p_out.previous_score = 50

\* how often x occurs in a sequence
CountIn(seq, x) == Cardinality({i \in DOMAIN seq : seq[i] = x})

\* two sequences hold the same elements the same number of times
SameElements(a, b) ==
    /\ Len(a) = Len(b)
    /\ \A i \in DOMAIN a : CountIn(a, a[i]) = CountIn(b, a[i])

PureFunctions ==
    {"calculate_overall_risk_score", "get_findings_by_severity",
     "prioritize_findings", "filter_findings_by_severity"}

\* C24: calculate_overall_risk_score, get_findings_by_severity,
\* prioritize_findings and the severity filter leave the list passed to them
\* as it was, and prioritize_findings returns a permutation of it.
C24_Pure ==
    [][(p_op = "none" /\ p_op' \in PureFunctions) =>
            /\ p_findings' = p_findings
            /\ p_op' = "prioritize_findings" => SameElements(p_out', p_findings)]_vars

\* C24 witness: prioritize_findings returned three findings in another order
\* than the list it was given, which is still in its own order.
C24_Witness ==
    /\ p_op = "prioritize_findings"
    /\ Len(p_findings) = 3
    /\ p_out # p_findings
    /\ SameElements(p_out, p_findings)

\* C25: calculate_overall_risk_score takes two values only: 100 for every
\* non-empty list, whatever its severities, and 0 for the empty list.
C25_ZeroOrHundred ==
    p_op \in {"calculate_overall_risk_score", "add_critical"} =>
        p_out = IF p_findings = <<>> THEN 0 ELSE 100

\* C25 witness: a single info finding is scored 100.
C25_Witness ==
    /\ p_op = "calculate_overall_risk_score"
    /\ Len(p_findings) = 1
    /\ p_findings[1].severity = "info"
    /\ p_out = 100

\* a step of the scan failed: the access check refused, or a fault was raised
Failed == Denied \/ fault # "none"

\* the ScanResult of the scan reports nothing
EmptyResult ==
    /\ Get(result).findings = <<>>
    /\ Get(result).total_findings = 0
    /\ Get(result).total_resources_scanned = 0
    /\ Get(result).risk_score = 0

TaskReturned(id) == task[id].at = "returned"

\* C27 (as claimed): once the background task of a scan whose engine call
\* returned normally has run to its end, the entry of the scan, if it is
\* still in active_scans, has status completed, progress 100, completed_at set
\* and the scan result stored, so that get_scan_result answers 200.
C27_CompletedAfterEngineReturn ==
    \A id \in DOMAIN active_scans :
        TaskReturned(id) =>
            /\ active_scans[id].status = "completed"
            /\ active_scans[id].progress = 100
            /\ active_scans[id].completed_at # None
            /\ active_scans[id].result # None
            /\ get_scan_result(id) = 200

TerminalStatus == {"completed", "failed"}

StatusMoves ==
    {<<"pending", "running">>, <<"running", "completed">>, <<"running", "failed">>}

\* C28: the status of a scan id in active_scans only moves pending -> running
\* -> completed or pending -> running -> failed, an entry with a terminal
\* status never changes, progress never decreases and stays in 0..100, and
\* status completed comes with progress 100 and completed_at set.
C28_OneWayStatus ==
    [][\A id \in ScanIds :
        /\ (id \in DOMAIN active_scans /\ id \in DOMAIN active_scans') =>
            LET before == active_scans[id]
                after  == active_scans'[id]
            IN /\ after.status # before.status =>
                    <<before.status, after.status>> \in StatusMoves
               /\ before.status \in TerminalStatus => after = before
               /\ after.progress >= before.progress
        /\ (id \notin DOMAIN active_scans /\ id \in DOMAIN active_scans') =>
            active_scans'[id].status = "pending"
        /\ id \in DOMAIN active_scans' =>
            /\ active_scans'[id].progress \in 0..100
            /\ active_scans'[id].status = "completed" =>
                    /\ active_scans'[id].progress = 100
                    /\ active_scans'[id].completed_at # None]_vars

\* C28 witness: a scan went pending -> running -> failed; its entry is
\* terminal with progress 90 and completed_at set, and a later request was
\* answered while it stayed so.
C28_Witness ==
    \E id \in DOMAIN active_scans :
        /\ TaskReturned(id)
        /\ active_scans[id].status = "failed"
        /\ active_scans[id].progress = 90
        /\ active_scans[id].completed_at # None
        /\ response.op = "get_scan_result"
        /\ response.scan_id = id

\* C29 (as claimed): start_scan answers a request that fails validation with
\* status 400, creates no entry in active_scans and schedules no task.
C29_InvalidAnswered400 ==
    (response.op = "start_scan" /\ ~response.request_valid) =>
        /\ response.status_code = 400
        /\ \A id \in ScanIds : task[id] = NoTask => id \notin DOMAIN active_scans

\* C30 (as claimed): after delete_scan removed a scan whose background task
\* was still to run or in flight, the task ends without an unhandled error and
\* the scan id is never in active_scans again.
C30_DeleteIsSafe ==
    \A id \in deleted :
        /\ task[id].at # "KeyError"
        /\ id \notin DOMAIN active_scans

====
